---- MODULE Spec2Model ----
(***************************************************************************)
(* Model of the report workflow of bi_mail_service:                        *)
(*   app/mail.py        send_mail and its helpers (_get_file, ...)         *)
(*   app/download.py    download_report and _save_image                    *)
(*   app/sharepoint.py  SharePointClient                                   *)
(* Text (file names, dates, file contents) is a sequence of one-character  *)
(* strings, so that the regular-expression search, strptime, strftime,     *)
(* str.strip and the `in` operator are computed character by character.    *)
(***************************************************************************)
EXTENDS Integers, Sequences, FiniteSets, TLC

VARIABLES
    folder,       \* _get_file: the files of the scanned folder, in iterdir order
    target,       \* _get_file: the target date
    lookup,       \* _get_file: its outcome
    content,      \* _get_recipients: the text of recipients.txt
    recipients,   \* _get_recipients: its outcome
    spFiles,      \* SharePoint: the children of the remote folder (id, name)
    spLocal,      \* SharePoint: the files of the local folder to upload
    spArg,        \* SharePoint: the argument of the call (expression, file)
    spEnv,        \* SharePoint: the responses the requests of the call received
    spResult,     \* SharePoint: the outcome of the call
    spWritten,    \* SharePoint: the local files the call wrote
    spAttempted,  \* SharePoint: the files a per-file request was issued for
    reportType,   \* workflow: the report type both steps are invoked with
    today,        \* workflow: the UTC date download_report runs on
    imagePage,    \* workflow: download_report's image_page
    remote,       \* workflow: the children of remote folder Report/<report_type>
    fs,           \* workflow: the files under <local_path>/<report_type>
    pc,           \* workflow: where download_report is
    matches,      \* workflow: download_report's search result (files)
    idx,          \* workflow: the position of the loop of download_report
    trace,        \* workflow: what download_report has requested so far
    mail,         \* workflow: the outcome of send_mail
    log           \* the records the logger has written, oldest first

lookupVars == <<folder, target, lookup>>
recipientVars == <<content, recipients>>
spVars == <<spFiles, spLocal, spArg, spEnv, spResult, spWritten, spAttempted>>
flowVars ==
    <<reportType, today, imagePage, remote, fs, pc, matches, idx, trace, mail>>
vars == <<lookupVars, recipientVars, spVars, flowVars, log>>

FlowIdle ==
    /\ reportType = <<>>
    /\ today = [y |-> 1, m |-> 1, d |-> 1]
    /\ imagePage = 0
    /\ remote = <<>>
    /\ fs = {}
    /\ pc = "idle"
    /\ matches = <<>>
    /\ idx = 0
    /\ trace = [listed |-> FALSE, downloads |-> <<>>, failed |-> <<>>,
                renders |-> <<>>, exc |-> "-"]
    /\ mail = [kind |-> "idle", exc |-> "-", date |-> [y |-> 1, m |-> 1, d |-> 1],
               after |-> "-", pdf |-> <<>>, image |-> <<>>, to |-> <<>>]

LookupIdle == folder = <<>> /\ target = [y |-> 1, m |-> 1, d |-> 1] /\ lookup = [kind |-> "idle", file |-> <<>>, exc |-> "-"]
SharePointIdle ==
    /\ spFiles = <<>>
    /\ spLocal = <<>>
    /\ spArg = <<>>
    /\ spEnv = [auth |-> TRUE, site |-> 0, listing |-> 0, item |-> <<>>]
    /\ spResult = [op |-> "idle", kind |-> "idle", list |-> <<>>, path |-> <<>>, exc |-> "-"]
    /\ spWritten = {}
    /\ spAttempted = <<>>
RecipientIdle == content = <<>> /\ recipients = [kind |-> "idle", list |-> <<>>]

(***************************************************************************)
(* Bounds of the model.                                                    *)
(***************************************************************************)
MaxFiles == 3       \* files in a scanned folder
MaxText == 6        \* characters in recipients.txt
MaxPages == 2       \* pages convert_from_path yields for a PDF

(***************************************************************************)
(* Characters and text.                                                    *)
(***************************************************************************)
Digits == <<"0", "1", "2", "3", "4", "5", "6", "7", "8", "9">>

DigitSet == {"0", "1", "2", "3", "4", "5", "6", "7", "8", "9"}

IsDigit(c) == c \in DigitSet

DigitVal(c) == (CHOOSE k \in 1..10 : Digits[k] = c) - 1

\* int() of the n digits of s that start at position i
RECURSIVE Num(_, _, _)
Num(s, i, n) ==
    IF n = 0 THEN 0
    ELSE 10 * Num(s, i, n - 1) + DigitVal(s[i + n - 1])

\* zero-padded decimal of v on n digits
RECURSIVE Pad(_, _)
Pad(v, n) ==
    IF n = 0 THEN <<>>
    ELSE Pad(v \div 10, n - 1) \o <<Digits[(v % 10) + 1]>>

\* Python's `expr in s` on str
Contains(s, expr) ==
    \E i \in 1..(Len(s) - Len(expr) + 1) :
        SubSeq(s, i, i + Len(expr) - 1) = expr

(***************************************************************************)
(* Dates.                                                                  *)
(***************************************************************************)
IsLeap(y) == (y % 4 = 0 /\ y % 100 # 0) \/ y % 400 = 0

DaysInMonth(y, m) ==
    IF m = 2 THEN (IF IsLeap(y) THEN 29 ELSE 28)
    ELSE IF m \in {4, 6, 9, 11} THEN 30 ELSE 31

\* strftime("%Y-%m-%d")
strftime(d) == Pad(d.y, 4) \o <<"-">> \o Pad(d.m, 2) \o <<"-">> \o Pad(d.d, 2)

\* r"(\d{4}-\d{2}-\d{2})" matches s at position i
PatternAt(s, i) ==
    /\ i >= 1
    /\ i + 9 <= Len(s)
    /\ \A k \in {0, 1, 2, 3, 5, 6, 8, 9} : IsDigit(s[i + k])
    /\ s[i + 4] = "-"
    /\ s[i + 7] = "-"

\* re.search: the position of the leftmost match, 0 when there is none (None)
RECURSIVE SearchFrom(_, _)
SearchFrom(s, i) ==
    IF i + 9 > Len(s) THEN 0
    ELSE IF PatternAt(s, i) THEN i
    ELSE SearchFrom(s, i + 1)

re_search(s) == SearchFrom(s, 1)

\* datetime.strptime(text, "%Y-%m-%d") on a text the pattern matched:
\* the date, or ValueError for a text that is no calendar date
strptime(text) ==
    LET y == Num(text, 1, 4)
        m == Num(text, 6, 2)
        d == Num(text, 9, 2)
    IN  IF y >= 1 /\ m \in 1..12 /\ d >= 1 /\ d <= DaysInMonth(y, m)
        THEN [ok |-> TRUE, y |-> y, m |-> m, d |-> d]
        ELSE [ok |-> FALSE, y |-> 0, m |-> 0, d |-> 0]

SameDate(p, d) == p.y = d.y /\ p.m = d.m /\ p.d = d.d

(***************************************************************************)
(* Outcomes of a call: a returned value, None, or a raised exception.      *)
(***************************************************************************)
NoText == <<>>

Returned(f) == [kind |-> "file", file |-> f, exc |-> "-"]
ReturnedNone == [kind |-> "none", file |-> NoText, exc |-> "-"]
Raised(e) == [kind |-> "raise", file |-> NoText, exc |-> e]
Pending == [kind |-> "pending", file |-> NoText, exc |-> "-"]

\* a record of the log: logger.info / warning / error with a well-formed message
LogRecord(level, msg, arg) == [level |-> level, msg |-> msg, arg |-> arg]

(***************************************************************************)
(* mail.py: _get_file.  `files` is the folder in iterdir order, `date` the *)
(* target date.  The loop returns at the first file whose leftmost date    *)
(* pattern parses to the target date; strptime raises ValueError on a      *)
(* pattern that is no calendar date.                                       *)
(***************************************************************************)
RECURSIVE ScanFiles(_, _, _)
ScanFiles(files, date, i) ==
    IF i > Len(files) THEN ReturnedNone
    ELSE LET name == files[i]
             pos == re_search(name)
         IN  IF pos = 0 THEN ScanFiles(files, date, i + 1)
             ELSE LET file_date == strptime(SubSeq(name, pos, pos + 9))
                  IN  IF ~file_date.ok THEN Raised("ValueError")
                      ELSE IF SameDate(file_date, date) THEN Returned(name)
                      ELSE ScanFiles(files, date, i + 1)

(***************************************************************************)
(* A lookup that selects by substring containment of the formatted target  *)
(* date instead of parsing the leftmost date of the name.                  *)
(***************************************************************************)
RECURSIVE ScanFilesSubstring(_, _, _)
ScanFilesSubstring(files, date, i) ==
    IF i > Len(files) THEN ReturnedNone
    ELSE IF Contains(files[i], strftime(date)) THEN Returned(files[i])
    ELSE ScanFilesSubstring(files, date, i + 1)

_get_file_substring(files, date) == ScanFilesSubstring(files, date, 1)

_get_file(files, date) == ScanFiles(files, date, 1)

(***************************************************************************)
(* The dates and the file names the model draws its inputs from.           *)
(***************************************************************************)
Date1 == [y |-> 2024, m |-> 6, d |-> 1]
Date2 == [y |-> 2024, m |-> 6, d |-> 2]
Dates == {Date1, Date2}

Pdf == <<".", "p", "d", "f">>

NameOne == <<"s", "-">> \o strftime(Date1) \o Pdf
NameTwo == <<"s", "-">> \o strftime(Date2) \o Pdf
NameBoth == <<"a", "-">> \o strftime(Date1) \o <<"-">> \o strftime(Date2) \o Pdf
NameLong == <<"7">> \o strftime(Date2) \o <<"1">> \o Pdf
NameNoDate == <<"n", "o", "t", "e", "s">> \o Pdf
NameBadDate ==
    <<"b", "-", "2", "0", "2", "3", "-", "0", "2", "-", "2", "9">> \o Pdf

NameUpper == <<"S", "-">> \o strftime(Date1) \o Pdf

RemoteNames == {NameOne, NameTwo, NameBoth, NameUpper}

LocalNames == {NameOne, NameTwo, NameBoth, NameLong, NameNoDate, NameBadDate}

\* the listings of a folder: its files in some iteration order, no name twice
Folders(names, n) ==
    {s \in UNION {[1..k -> names] : k \in 0..n} :
        \A i, j \in 1..Len(s) : i # j => s[i] # s[j]}

(***************************************************************************)
(* Specification of the date lookup: _get_file on every folder of at most  *)
(* MaxFiles files and every target date.                                   *)
(***************************************************************************)
LookupInit ==
    /\ folder \in Folders(LocalNames, MaxFiles)
    /\ target \in Dates
    /\ lookup = Pending
    /\ log = <<>>
    /\ RecipientIdle
    /\ SharePointIdle
    /\ FlowIdle

GetFile ==
    /\ lookup.kind = "pending"
    /\ lookup' = _get_file(folder, target)
    /\ log' = IF lookup'.kind = "file"
              THEN Append(log, LogRecord("info", "Found file for today", lookup'.file))
              ELSE log
    /\ UNCHANGED <<folder, target, recipientVars, spVars, flowVars>>

LookupNext == GetFile

SpecLookup == LookupInit /\ [][LookupNext]_vars

(***************************************************************************)
(* mail.py: _get_recipients.  recipients.txt is opened in text mode, so    *)
(* "\r\n" and a lone "\r" read as "\n" (universal newlines); iterating the *)
(* file yields its lines, each with its terminator; str.strip removes      *)
(* leading and trailing whitespace.                                        *)
(***************************************************************************)
Whitespace == {" ", "\t", "\n", "\r", "\f"}

RECURSIVE TranslateNewlines(_)
TranslateNewlines(s) ==
    IF s = <<>> THEN <<>>
    ELSE IF Head(s) = "\r"
         THEN IF Len(s) >= 2 /\ s[2] = "\n"
              THEN <<"\n">> \o TranslateNewlines(SubSeq(s, 3, Len(s)))
              ELSE <<"\n">> \o TranslateNewlines(Tail(s))
         ELSE <<Head(s)>> \o TranslateNewlines(Tail(s))

\* the lines of a text, as iteration over the open file yields them
RECURSIVE ReadLines(_, _)
ReadLines(s, cur) ==
    IF s = <<>> THEN (IF cur = <<>> THEN <<>> ELSE <<cur>>)
    ELSE IF Head(s) = "\n"
         THEN <<Append(cur, "\n")>> \o ReadLines(Tail(s), <<>>)
         ELSE ReadLines(Tail(s), Append(cur, Head(s)))

RECURSIVE lstrip(_)
lstrip(s) ==
    IF s # <<>> /\ Head(s) \in Whitespace THEN lstrip(Tail(s)) ELSE s

RECURSIVE rstrip(_)
rstrip(s) ==
    IF s # <<>> /\ s[Len(s)] \in Whitespace
    THEN rstrip(SubSeq(s, 1, Len(s) - 1))
    ELSE s

strip(s) == rstrip(lstrip(s))

\* [line.strip() for line in f if line.strip()]
RECURSIVE RawRecipients(_)
RawRecipients(lines) ==
    IF lines = <<>> THEN <<>>
    ELSE IF strip(Head(lines)) # <<>>
         THEN <<strip(Head(lines))>> \o RawRecipients(Tail(lines))
         ELSE RawRecipients(Tail(lines))

\* a parser that keeps an entry for every line, blank or not
RECURSIVE RawRecipientsUnfiltered(_)
RawRecipientsUnfiltered(lines) ==
    IF lines = <<>> THEN <<>>
    ELSE <<strip(Head(lines))>> \o RawRecipientsUnfiltered(Tail(lines))

Address(email) == [emailAddress |-> [address |-> email]]

_get_recipients_unfiltered(text) ==
    LET raw == RawRecipientsUnfiltered(ReadLines(TranslateNewlines(text), <<>>))
    IN  [kind |-> "list", list |-> [k \in 1..Len(raw) |-> Address(raw[k])]]

_get_recipients(text) ==
    LET raw_recipients == RawRecipients(ReadLines(TranslateNewlines(text), <<>>))
    IN  IF raw_recipients # <<>>
        THEN [kind |-> "list",
              list |-> [k \in 1..Len(raw_recipients) |->
                            Address(raw_recipients[k])]]
        ELSE [kind |-> "list", list |-> <<>>]

(***************************************************************************)
(* Specification of the recipient parsing: _get_recipients on every text   *)
(* of at most MaxText characters.                                          *)
(***************************************************************************)
TextChars == {"a", "b", " ", "\n", "\r"}

Texts(n) == UNION {[1..k -> TextChars] : k \in 0..n}

RecipientInit ==
    /\ content \in Texts(MaxText)
    /\ recipients = [kind |-> "pending", list |-> <<>>]
    /\ log = <<>>
    /\ LookupIdle
    /\ SharePointIdle
    /\ FlowIdle

GetRecipients ==
    /\ recipients.kind = "pending"
    /\ recipients' = _get_recipients(content)
    /\ log' = IF recipients'.list = <<>>
              THEN Append(log, LogRecord("warning", "No recipients found", NoText))
              ELSE log
    /\ UNCHANGED <<content, lookupVars, spVars, flowVars>>

RecipientNext == GetRecipients

SpecRecipients == RecipientInit /\ [][RecipientNext]_vars

(***************************************************************************)
(* sharepoint.py: SharePointClient.  Every call authenticates, looks the   *)
(* site up and then issues its requests; the environment chooses what each *)
(* request answers:                                                        *)
(*   auth     whether acquire_token_for_client answers with access_token   *)
(*   site     the answer to the site lookup: its status and its body       *)
(*   listing  the status of the children listing                           *)
(*   item     the status of the per-file request, by position in the batch *)
(***************************************************************************)
HttpOK == 200
HttpCreated == 201
HttpNotFound == 404

Statuses == {HttpOK, HttpCreated, HttpNotFound}

\* the site lookup answers the site (with its id), a JSON error body that has
\* no "id", or a body that is not JSON
SiteResponses ==
    {[status |-> HttpOK, body |-> "site"],
     [status |-> HttpNotFound, body |-> "error"],
     [status |-> HttpNotFound, body |-> "nonjson"]}

Envs(n) ==
    [auth : BOOLEAN, site : SiteResponses, listing : Statuses,
     item : [1..n -> Statuses]]

SpOutcome(op, kind, list, path, exc) ==
    [op |-> op, kind |-> kind, list |-> list, path |-> path, exc |-> exc]

SpRaised(op, exc) == SpOutcome(op, "raise", <<>>, <<>>, exc)

\* what a call leaves behind: its outcome, the files written, the per-file
\* requests issued and the log records written
Effect(result, written, attempted, records) ==
    [result |-> result, written |-> written, attempted |-> attempted,
     records |-> records]

\* local_dir / name, and the bytes the content request of file id answers
PathOf(dir, name) == [dir |-> dir, name |-> name]
WrittenFile(dir, file) == [path |-> PathOf(dir, file.name), content |-> file.id]

\* the descriptors of a listing: {"id": ..., "name": ...}
Describe(names) == [k \in 1..Len(names) |-> [id |-> k, name |-> names[k]]]

AuthRecord == LogRecord("info", "Authenticating to SharePoint", NoText)

\* site = requests.get(site_url).json(); site_id = site["id"]
SiteLookupRaises(site) ==
    IF site.body = "site" THEN "-"
    ELSE IF site.body = "error" THEN "KeyError"
    ELSE "JSONDecodeError"

\* str.lower
UpperLetters ==
    <<"A", "B", "C", "D", "E", "F", "G", "H", "I", "J", "K", "L", "M",
      "N", "O", "P", "Q", "R", "S", "T", "U", "V", "W", "X", "Y", "Z">>
LowerLetters ==
    <<"a", "b", "c", "d", "e", "f", "g", "h", "i", "j", "k", "l", "m",
      "n", "o", "p", "q", "r", "s", "t", "u", "v", "w", "x", "y", "z">>

UpperSet == {UpperLetters[k] : k \in 1..26}

Lower(c) ==
    IF c \in UpperSet
    THEN LowerLetters[CHOOSE k \in 1..Len(UpperLetters) : UpperLetters[k] = c]
    ELSE c
LowerText(s) == [k \in 1..Len(s) |-> Lower(s[k])]

\* a filter that ignores case
FilterByNameIgnoreCase(files, expression) ==
    SelectSeq(files, LAMBDA f : Contains(LowerText(f.name), LowerText(expression)))

\* [f for f in files if expression in f["name"]]
FilterByName(files, expression) ==
    SelectSeq(files, LAMBDA f : Contains(f.name, expression))

search_file(files, expression, env) ==
    IF ~env.auth
    THEN Effect(SpRaised("search_file", "Exception"), {}, <<>>, <<AuthRecord>>)
    ELSE IF SiteLookupRaises(env.site) # "-"
    THEN Effect(SpRaised("search_file", SiteLookupRaises(env.site)), {}, <<>>,
                <<AuthRecord>>)
    ELSE IF env.listing # HttpOK
    THEN Effect(SpRaised("search_file", "Exception"), {}, <<>>, <<AuthRecord>>)
    ELSE Effect(SpOutcome("search_file", "list", FilterByName(files, expression),
                          <<>>, "-"),
                {}, <<>>, <<AuthRecord>>)

download_file(file, local_path, env) ==
    IF ~env.auth
    THEN Effect(SpRaised("download_file", "Exception"), {}, <<>>, <<AuthRecord>>)
    ELSE IF SiteLookupRaises(env.site) # "-"
    THEN Effect(SpRaised("download_file", SiteLookupRaises(env.site)), {}, <<>>,
                <<AuthRecord>>)
    ELSE IF env.item[1] = HttpOK
    THEN Effect(SpOutcome("download_file", "path", <<>>,
                          PathOf(local_path, file.name), "-"),
                {WrittenFile(local_path, file)}, <<file>>,
                <<AuthRecord, LogRecord("info", "Downloaded file", file.name)>>)
    ELSE Effect(SpOutcome("download_file", "none", <<>>, <<>>, "-"),
                {}, <<file>>,
                <<AuthRecord,
                  LogRecord("error", "Failed to download file", file.name)>>)

\* _download_all: one content request per file.  The failure branch calls
\* logger.error("Failed to download file %s: %S", ...): "%S" is no format
\* character, so formatting the record raises ValueError inside Handler.emit,
\* which handleError swallows: the loop goes on and no record is written.
RECURSIVE _download_all(_, _, _, _, _)
_download_all(files, item, local_dir, i, acc) ==
    IF i > Len(files) THEN acc
    ELSE LET file == files[i]
         IN  IF item[i] = HttpOK
             THEN _download_all(files, item, local_dir, i + 1,
                    Effect(acc.result,
                           acc.written \cup {WrittenFile(local_dir, file)},
                           Append(acc.attempted, file),
                           Append(acc.records,
                                  LogRecord("info", "Downloading file", file.name))))
             ELSE _download_all(files, item, local_dir, i + 1,
                    Effect(acc.result, acc.written,
                           Append(acc.attempted, file), acc.records))

download_folder(files, local_dir, env) ==
    IF ~env.auth
    THEN Effect(SpRaised("download_folder", "Exception"), {}, <<>>, <<AuthRecord>>)
    ELSE IF SiteLookupRaises(env.site) # "-"
    THEN Effect(SpRaised("download_folder", SiteLookupRaises(env.site)), {}, <<>>,
                <<AuthRecord>>)
    ELSE IF env.listing # HttpOK
    THEN Effect(SpRaised("download_folder", "Exception"), {}, <<>>, <<AuthRecord>>)
    ELSE LET start ==
                Effect(SpOutcome("download_folder", "done", <<>>, <<>>, "-"),
                       {}, <<>>,
                       <<AuthRecord,
                         LogRecord("info", "Found files in the folder", NoText),
                         LogRecord("info", "Creating local directory", NoText)>>)
             all == _download_all(files, env.item, local_dir, 1, start)
         IN  Effect(all.result, all.written, all.attempted,
                    Append(all.records,
                           LogRecord("info", "Download completed", NoText)))

\* _upload_all: files = Path.iterdir(local_folder) is a generator, and
\* len(files) in the first logger.info raises TypeError before the loop
\* issues any request.
_upload_all(local_files) ==
    Effect(SpRaised("upload", "TypeError"), {}, <<>>, <<AuthRecord>>)

upload(local_files, env) ==
    IF ~env.auth
    THEN Effect(SpRaised("upload", "Exception"), {}, <<>>, <<AuthRecord>>)
    ELSE IF SiteLookupRaises(env.site) # "-"
    THEN Effect(SpRaised("upload", SiteLookupRaises(env.site)), {}, <<>>,
                <<AuthRecord>>)
    ELSE _upload_all(local_files)

(***************************************************************************)
(* Specification of the SharePoint client: one call of search_file,        *)
(* download_file, download_folder or upload, on every remote folder and    *)
(* local folder of at most MaxFiles files and every answer of the requests.*)
(***************************************************************************)
Expressions ==
    {strftime(Date1), strftime(Date2), <<"s", "-">>, <<"S">>, <<"x">>, <<>>}

LocalDir == "local"

SharePointInit ==
    /\ spFiles \in {Describe(names) : names \in Folders(RemoteNames, MaxFiles)}
    /\ spLocal \in Folders({NameOne, NameTwo}, MaxFiles)
    /\ spArg = <<>>
    /\ spEnv = [auth |-> TRUE, site |-> 0, listing |-> 0, item |-> <<>>]
    /\ spResult = SpOutcome("pending", "pending", <<>>, <<>>, "-")
    /\ spWritten = {}
    /\ spAttempted = <<>>
    /\ log = <<>>
    /\ LookupIdle
    /\ RecipientIdle
    /\ FlowIdle

Took(arg, env, effect) ==
    /\ spArg' = arg
    /\ spEnv' = env
    /\ spResult' = effect.result
    /\ spWritten' = effect.written
    /\ spAttempted' = effect.attempted
    /\ log' = log \o effect.records
    /\ UNCHANGED <<spFiles, spLocal, lookupVars, recipientVars, flowVars>>

SearchFile ==
    /\ spResult.op = "pending"
    /\ \E expression \in Expressions : \E env \in Envs(0) :
        Took(expression, env, search_file(spFiles, expression, env))

DownloadFile ==
    /\ spResult.op = "pending"
    /\ \E i \in 1..Len(spFiles) : \E env \in Envs(1) :
        Took(spFiles[i], env, download_file(spFiles[i], LocalDir, env))

DownloadFolder ==
    /\ spResult.op = "pending"
    /\ \E env \in Envs(Len(spFiles)) :
        Took(spFiles, env, download_folder(spFiles, LocalDir, env))

Upload ==
    /\ spResult.op = "pending"
    /\ \E env \in Envs(0) :
        Took(spLocal, env, upload(spLocal, env))

SharePointNext == SearchFile \/ DownloadFile \/ DownloadFolder \/ Upload

SpecSharePoint == SharePointInit /\ [][SharePointNext]_vars

(***************************************************************************)
(* The local tree: <local_path>/<report_type>/{pdf|image}/<name>.          *)
(***************************************************************************)
LocalPath == "./data"

\* report_type.lower().replace(" ", "_")
Normalise(report_type) ==
    [k \in 1..Len(report_type) |->
        IF report_type[k] = " " THEN "_" ELSE Lower(report_type[k])]

FilePath(report_type_path, kind, name) ==
    [root |-> LocalPath, type |-> report_type_path, kind |-> kind, name |-> name]

\* Path.stem: the name without its last suffix
Stem(name) ==
    LET dots == {i \in 1..Len(name) : name[i] = "."}
        i == IF dots = {} THEN 0 ELSE CHOOSE d \in dots : \A e \in dots : e <= d
    IN  IF i > 1 /\ i < Len(name) THEN SubSeq(name, 1, i - 1) ELSE name

Jpg == <<".", "j", "p", "g">>

\* the names of the files of one folder of the tree
NamesIn(tree, report_type_path, kind) ==
    {f.name : f \in {g \in tree : g.type = report_type_path /\ g.kind = kind}}

\* the orders in which iterdir may list a folder
Listings(names) ==
    {s \in [1..Cardinality(names) -> names] :
        \A i, j \in 1..Cardinality(names) : i # j => s[i] # s[j]}

(***************************************************************************)
(* app.graph_api.GraphAPIClient, the client download.py and mail.py call.  *)
(* search_file lists the children of the remote folder and keeps those     *)
(* whose name contains the expression; a failed listing is surfaced as a   *)
(* failure.  download_file writes the content to local_dir/<name> and      *)
(* returns the written path, or None on a non-success status.              *)
(***************************************************************************)
graph_search_file(listing, expression, ok) ==
    IF ok
    THEN [kind |-> "list", list |-> FilterByName(listing, expression)]
    ELSE [kind |-> "raise", list |-> <<>>]

graph_download_file(file, local_pdf_path, ok) ==
    IF ok
    THEN [kind |-> "path", path |-> FilePath(local_pdf_path, "pdf", file.name)]
    ELSE [kind |-> "none", path |-> FilePath(local_pdf_path, "pdf", NoText)]

(***************************************************************************)
(* download.py: _save_image and one iteration of download_report's loop.   *)
(* pdf_filename is download_file's result; local_path_image / None raises  *)
(* TypeError; the written path is absolute, so local_path_image /          *)
(* pdf_filename is the PDF itself.  pages is what convert_from_path yields.*)
(***************************************************************************)
Step(exc, written, downloads, failed, renders, records) ==
    [exc |-> exc, written |-> written, downloads |-> downloads,
     failed |-> failed, renders |-> renders, records |-> records]

_save_image(pdf_filename, local_path, image_page, pages) ==
    IF pdf_filename.kind = "none"
    THEN Step("TypeError", {}, <<>>, <<>>, <<>>, <<>>)
    ELSE IF pages = 0
    THEN Step("-", {}, <<>>, <<>>, <<pdf_filename.path>>,
              <<LogRecord("error", "No images found in the PDF file", NoText)>>)
    ELSE IF image_page >= pages
    THEN Step("IndexError", {}, <<>>, <<>>, <<pdf_filename.path>>, <<>>)
    ELSE LET image_path ==
                FilePath(local_path, "image", Stem(pdf_filename.path.name) \o Jpg)
         IN  Step("-", {image_path}, <<>>, <<>>, <<pdf_filename.path>>,
                  <<LogRecord("info", "Saved image", image_path.name)>>)

\* an iteration that downloads the file and does not render it
download_item_unrendered(file, report_type, image_page, ok, pages) ==
    LET out == graph_download_file(file, Normalise(report_type), ok)
    IN  IF out.kind = "path"
        THEN Step("-", {out.path}, <<out.path>>, <<>>, <<>>, <<>>)
        ELSE Step("-", {}, <<>>, <<file.name>>, <<>>, <<>>)

download_item(file, report_type, image_page, ok, pages) ==
    LET report_type_path == Normalise(report_type)
        found == LogRecord("info", "Found file for report", file.name)
        output_filename == graph_download_file(file, report_type_path, ok)
        image == _save_image(output_filename, report_type_path, image_page, pages)
    IN  IF output_filename.kind = "path"
        THEN Step(image.exc, {output_filename.path} \cup image.written,
                  <<output_filename.path>>, <<>>, image.renders,
                  <<found>> \o image.records)
        ELSE Step(image.exc, image.written, <<>>, <<file.name>>, image.renders,
                  <<found>> \o image.records)

(***************************************************************************)
(* mail.py: send_mail.  _create_message evaluates the recipients, the     *)
(* body, the PDF and the image, in this order; Path.open(None, "rb")       *)
(* raises TypeError when _get_file found nothing; send_email is called     *)
(* once the message is built.                                              *)
(***************************************************************************)
Attachment(found) ==
    IF found.kind = "none" THEN Raised("TypeError") ELSE found

\* an image lookup that attaches empty content when no file was found
_get_image_or_empty(image_listing, date) ==
    LET image_file == _get_file(image_listing, date)
    IN  IF image_file.kind = "none" THEN Returned(NoText) ELSE image_file

_get_image(image_listing, date) == Attachment(_get_file(image_listing, date))

_get_pdf(pdf_listing, date) == Attachment(_get_file(pdf_listing, date))

Mail(kind, exc, date, after, pdf, image, to) ==
    [kind |-> kind, exc |-> exc, date |-> date, after |-> after,
     pdf |-> pdf, image |-> image, to |-> to]

send_mail(date, after, text, has_recipients, has_body, pdf_listing, image_listing) ==
    LET to == _get_recipients(text).list
        pdf == _get_pdf(pdf_listing, date)
        image == _get_image(image_listing, date)
        failed(exc) == Mail("raise", exc, date, after, NoText, NoText, <<>>)
    IN  IF ~has_recipients THEN failed("FileNotFoundError")
        ELSE IF ~has_body THEN failed("FileNotFoundError")
        ELSE IF pdf.kind = "raise" THEN failed(pdf.exc)
        ELSE IF image.kind = "raise" THEN failed(image.exc)
        ELSE Mail("sent", "-", date, after, pdf.file, image.file, to)

(***************************************************************************)
(* Specification of the workflow: download_report on a day, and send_mail  *)
(* for a date, before or after it, on the same local tree.                 *)
(***************************************************************************)
ReportTypes ==
    {<<"d", "a", "i", "l", "y">>, <<"w", "e", "e", "k", "l", "y">>}

\* download_report's image_page: the default, and the second page
ImagePages == {0, 1}

\* the texts of recipients.txt send_mail may find: empty, or one address
RecipientFiles == {<<>>, <<"a", "\n">>}

NoTrace ==
    [listed |-> FALSE, downloads |-> <<>>, failed |-> <<>>, renders |-> <<>>,
     exc |-> "-"]

Init ==
    /\ reportType \in ReportTypes
    /\ today \in Dates
    /\ imagePage \in ImagePages
    /\ remote \in {Describe(names) : names \in Folders(RemoteNames, MaxFiles)}
    /\ fs = {}
    /\ pc = "start"
    /\ matches = <<>>
    /\ idx = 0
    /\ trace = NoTrace
    /\ mail = Mail("pending", "-", Date1, "-", NoText, NoText, <<>>)
    /\ log = <<>>
    /\ LookupIdle
    /\ RecipientIdle
    /\ SharePointIdle

\* download.py lines 21-34: the search for today's files
Search ==
    /\ pc = "start"
    /\ \E ok \in BOOLEAN :
        LET result == graph_search_file(remote, strftime(today), ok)
        IN  /\ matches' = result.list
            /\ pc' = IF result.kind = "raise" THEN "raised"
                     ELSE IF result.list = <<>> THEN "done" ELSE "loop"
            /\ trace' = [trace EXCEPT !.listed = ok,
                                      !.exc = IF ok THEN "-" ELSE "Exception"]
    /\ idx' = 1
    /\ UNCHANGED <<reportType, today, imagePage, remote, fs, mail, log,
                   lookupVars, recipientVars, spVars>>

\* download.py lines 36-48: one iteration of the loop
DownloadItem ==
    /\ pc = "loop"
    /\ \E ok \in BOOLEAN : \E pages \in 0..MaxPages :
        LET step == download_item(matches[idx], reportType, imagePage, ok, pages)
        IN  /\ fs' = fs \cup step.written
            /\ trace' = [trace EXCEPT !.downloads = @ \o step.downloads,
                                      !.failed = @ \o step.failed,
                                      !.renders = @ \o step.renders,
                                      !.exc = step.exc]
            /\ log' = log \o step.records
            /\ pc' = IF step.exc # "-" THEN "raised"
                     ELSE IF idx = Len(matches) THEN "done" ELSE "loop"
    /\ idx' = idx + 1
    /\ UNCHANGED <<reportType, today, imagePage, remote, matches, mail,
                   lookupVars, recipientVars, spVars>>

\* the listings iterdir may give of a folder, when the run gets to list it
ListingsRead(listed, kind) ==
    IF listed THEN Listings(NamesIn(fs, Normalise(reportType), kind)) ELSE {<<>>}

\* mail.py lines 17-39, invoked while download_report is not running; the
\* folders are listed only once recipients.txt and body.html have been read
SendMail ==
    /\ mail.kind = "pending"
    /\ pc \in {"start", "done", "raised"}
    /\ \E date \in Dates : \E has_recipients, has_body \in BOOLEAN :
       \E text \in (IF has_recipients THEN RecipientFiles ELSE {content}) :
       \E pdf_listing \in ListingsRead(has_recipients /\ has_body, "pdf") :
       \E image_listing \in
            ListingsRead((has_recipients /\ has_body) /\
                            _get_pdf(pdf_listing, date).kind = "file",
                         "image") :
            /\ mail' = send_mail(date, pc, text, has_recipients, has_body,
                                 pdf_listing, image_listing)
            /\ content' = text
    /\ UNCHANGED <<reportType, today, imagePage, remote, fs, pc, matches, idx,
                   trace, log, lookupVars, recipients, spVars>>

Next == Search \/ DownloadItem \/ SendMail

Spec == Init /\ [][Next]_vars

(***************************************************************************)
(* Properties of the date lookup.                                          *)
(***************************************************************************)
\* the leftmost NNNN-NN-NN substring of name is the text of date d
LeftmostIs(name, d) ==
    \E pos \in 1..Len(name) :
        /\ PatternAt(name, pos)
        /\ \A j \in 1..(pos - 1) : ~PatternAt(name, j)
        /\ SubSeq(name, pos, pos + 9) = strftime(d)

\* the leftmost NNNN-NN-NN substring of name is no calendar date
LeftmostInvalid(name) ==
    \E pos \in 1..Len(name) :
        /\ PatternAt(name, pos)
        /\ \A j \in 1..(pos - 1) : ~PatternAt(name, j)
        /\ ~strptime(SubSeq(name, pos, pos + 9)).ok

C3_AbsenceIsNone ==
    (/\ lookup.kind # "pending"
     /\ \A i \in 1..Len(folder) : ~Contains(folder[i], strftime(target)))
        => lookup = ReturnedNone

(***************************************************************************)
(* Properties of the recipient parsing.                                    *)
(***************************************************************************)
\* position i of the file ends a line: "\n", or a "\r" not followed by "\n"
EndsLine(i) ==
    \/ content[i] = "\n"
    \/ content[i] = "\r" /\ (i = Len(content) \/ content[i + 1] # "\n")

\* the positions where a line of the file starts
LineStarts ==
    {i \in 1..Len(content) :
        i = 1 \/ EndsLine(i - 1)}

\* the last position of the line that starts at i
LineEnd(i) ==
    IF \E j \in i..Len(content) : EndsLine(j)
    THEN CHOOSE j \in i..Len(content) :
            EndsLine(j) /\ \A k \in i..(j - 1) : ~EndsLine(k)
    ELSE Len(content)

\* the positions of the characters of the line at i that are not whitespace
Inked(i) == {j \in i..LineEnd(i) : content[j] \notin Whitespace}

NonBlankStarts == {i \in LineStarts : Inked(i) # {}}

\* the k-th non-blank line of the file, by the position where it starts
NthNonBlank(k) ==
    CHOOSE i \in NonBlankStarts :
        Cardinality({j \in NonBlankStarts : j < i}) = k - 1

Least(S) == CHOOSE x \in S : \A y \in S : x <= y
Greatest(S) == CHOOSE x \in S : \A y \in S : x >= y

\* C4: _get_recipients returns exactly the non-blank lines of recipients.txt,
\* each stripped of its surrounding whitespace, one entry per such line, in
\* file order; empty and whitespace-only lines produce no entry.
C4_NonBlankLinesInOrder ==
    recipients.kind = "list" =>
        /\ Len(recipients.list) = Cardinality(NonBlankStarts)
        /\ \A k \in 1..Len(recipients.list) :
            LET i == NthNonBlank(k)
            IN  recipients.list[k] =
                    Address(SubSeq(content, Least(Inked(i)), Greatest(Inked(i))))

\* C4 witness: the file 'a', '', ' ', 'b' has been parsed to [a, b].
C4_Witness ==
    /\ content = <<"a", "\n", "\n", " ", "\n", "b">>
    /\ recipients.kind = "list"
    /\ recipients.list = <<Address(<<"a">>), Address(<<"b">>)>>

(***************************************************************************)
(* Properties of the SharePoint client.                                    *)
(***************************************************************************)
\* expression occurs in name, character for character
Occurs(expression, name) ==
    \E k \in 0..(Len(name) - Len(expression)) :
        \A t \in 1..Len(expression) : name[k + t] = expression[t]

\* list holds exactly the files of spFiles whose name contains the
\* expression, each once, in the order of the listing
ExactlyTheMatches(list, expression) ==
    /\ \A k \in 1..Len(spFiles) :
        (\E n \in 1..Len(list) : list[n] = spFiles[k])
            <=> Occurs(expression, spFiles[k].name)
    /\ \A n \in 1..Len(list) : \E k \in 1..Len(spFiles) : list[n] = spFiles[k]
    /\ \A m, n \in 1..Len(list) : m < n => list[m].id < list[n].id

RequestsSucceed == spEnv.auth /\ spEnv.site.status = HttpOK

\* C5 as stated: search_file returns exactly the listed files whose name
\* contains the expression (case-sensitive), the empty list when none match,
\* and never raises, whatever the folder-listing request answers.
C5_SearchNeverRaises ==
    (spResult.op = "search_file" /\ RequestsSucceed) =>
        /\ spResult.kind = "list"
        /\ spEnv.listing = HttpOK => ExactlyTheMatches(spResult.list, spArg)

\* C5 as amended: when the folder-listing request answers 200 OK, search_file
\* returns exactly the listed files whose name contains the expression
\* (case-sensitive), in listing order, the empty list when none match, and
\* does not raise; when the listing answers any other status it raises.
C5_SearchOfListedFolder ==
    (spResult.op = "search_file" /\ RequestsSucceed) =>
        IF spEnv.listing = HttpOK
        THEN /\ spResult.kind = "list"
             /\ ExactlyTheMatches(spResult.list, spArg)
        ELSE spResult.kind = "raise" /\ spResult.exc = "Exception"

\* C5 witness: a search for "S" in a listing that holds s-... and S-... has
\* returned the upper-case name alone.
C5_Witness ==
    /\ spResult.op = "search_file"
    /\ spArg = <<"S">>
    /\ \E k \in 1..Len(spFiles) : spFiles[k].name = NameOne
    /\ Len(spResult.list) = 1
    /\ spResult.list[1].name = NameUpper

\* C6 as stated: after authentication, download_file never raises for an HTTP
\* error status: a non-success status of the site lookup or of the content
\* request yields None and no local file; on success the response bytes are
\* written to local_dir/<name> and that path is returned.
C6_DownloadFileNeverRaises ==
    (spResult.op = "download_file" /\ spEnv.auth) =>
        IF spEnv.site.status = HttpOK /\ spEnv.item[1] = HttpOK
        THEN /\ spResult.kind = "path"
             /\ spResult.path = PathOf(LocalDir, spArg.name)
             /\ spWritten = {[path |-> spResult.path, content |-> spArg.id]}
        ELSE spResult.kind = "none" /\ spWritten = {}

\* the batch of a bulk call, by file name
Batch ==
    IF spResult.op = "upload" THEN spLocal
    ELSE [k \in 1..Len(spFiles) |-> spFiles[k].name]

\* C7 as stated: once a bulk call (download_folder, upload) has its batch,
\* every file of the batch is attempted exactly once, whichever per-file
\* requests fail, and a success or a failure is logged for each.
C7_BatchAttemptsAndLogsEveryFile ==
    (/\ spResult.op \in {"download_folder", "upload"}
     /\ RequestsSucceed
     /\ spResult.op = "download_folder" => spEnv.listing = HttpOK)
        => /\ spResult.kind = "done"
           /\ Len(spAttempted) = Len(Batch)
           /\ \A k \in 1..Len(Batch) :
                /\ spAttempted[k].name = Batch[k]
                /\ \E n \in 1..Len(log) :
                    /\ log[n].arg = Batch[k]
                    /\ log[n].level \in {"info", "error"}

(***************************************************************************)
(* Properties of the workflow.                                             *)
(***************************************************************************)
PdfNames == NamesIn(fs, Normalise(reportType), "pdf")
ImageNames == NamesIn(fs, Normalise(reportType), "image")

\* C1: send_mail reaches send_email only with a PDF and an image of the
\* target date found in the pdf and image folders and read; when no file of
\* the pdf folder, or none of the image folder, matches the target date, the
\* run ends with a raised error and nothing is sent.
C1_NoMissingAttachment ==
    mail.kind \in {"sent", "raise"} =>
        LET stamp == strftime(mail.date)
        IN  /\ mail.kind = "sent" =>
                /\ mail.pdf \in PdfNames
                /\ mail.image \in ImageNames
                /\ Occurs(stamp, mail.pdf)
                /\ Occurs(stamp, mail.image)
            /\ (\/ \A n \in PdfNames : ~Occurs(stamp, n)
                \/ \A n \in ImageNames : ~Occurs(stamp, n))
                    => mail.kind = "raise"

\* C1 witness: send_mail has run after a download whose PDF rendered to no
\* page: the PDF of the date is there, the image is not, and it has raised.
C1_Witness ==
    /\ mail.kind = "raise"
    /\ mail.exc = "TypeError"
    /\ mail.after = "done"
    /\ \E n \in PdfNames : LeftmostIs(n, mail.date)
    /\ ImageNames = {}

\* the files of the remote folder whose name contains today's date, and the
\* local paths download_report is to write them to
MatchingFiles ==
    LET stamp == strftime(today)
    IN  {k \in 1..Len(remote) : Occurs(stamp, remote[k].name)}

ExpectedPaths ==
    {[root |-> LocalPath, type |-> reportType, kind |-> "pdf",
      name |-> remote[k].name] : k \in MatchingFiles}

Elements(seq) == {seq[n] : n \in 1..Len(seq)}

C9_FailedDownloadAbortsOnlyThatItem ==
    trace.failed # <<>> =>
        /\ pc # "raised"
        /\ trace.exc = "-"
        /\ \A n \in 1..Len(trace.failed) :
            \A m \in 1..Len(trace.renders) :
                trace.renders[m].name # trace.failed[n]
        /\ pc = "done" =>
            Len(trace.downloads) + Len(trace.failed) = Cardinality(MatchingFiles)

\* the PDFs download_report has downloaded and rendered to an image
DownloadedAndRendered ==
    {q \in Elements(trace.downloads) :
        /\ q \in Elements(trace.renders)
        /\ Stem(q.name) \o Jpg \in ImageNames}

\* C10 as stated: if download_report run on date D has downloaded and
\* rendered a file, a later send_mail for the same report type and date D
\* (with recipients.txt and body.html in place) locates that PDF and its
\* image and dispatches the message.
C10_MailFindsWhatDownloadSelected ==
    (/\ mail.kind \in {"sent", "raise"}
     /\ mail.after \in {"done", "raised"}
     /\ mail.date = today
     /\ mail.exc # "FileNotFoundError"
     /\ DownloadedAndRendered # {})
        => /\ mail.kind = "sent"
           /\ \E q \in DownloadedAndRendered :
                mail.pdf = q.name /\ mail.image = Stem(q.name) \o Jpg

====
